---- MODULE Spec2Model ----
(***************************************************************************)
(* Used-car price predictor: the offline training script                   *)
(* (training_model.py), the artifact files it writes, and the FastAPI      *)
(* service (backend.py) that loads them once at import and answers         *)
(* /predict requests from a thread pool.                                   *)
(*                                                                         *)
(* Prices are fixed-point numbers in tenths of a dinar (PriceScale), so a  *)
(* Predictor output v = 0.6 is the integer 6 and v = 1999.5 is 19995.      *)
(***************************************************************************)
EXTENDS Integers, Sequences, FiniteSets, TLC

VARIABLES
    disk,           \* the four artifact files: NoFile, Partial or an object
    tpc,            \* position of the training script
    trun,           \* number of training runs started so far
    tmem,           \* training script's objects: rf_model, le_brand, le_model, features
    spc,            \* position of the service's module-level code
    model,          \* backend.py global
    brand_encoder,  \* backend.py global
    model_encoder,  \* backend.py global
    feature_names,  \* backend.py global
    missing,        \* paths whose os.path.exists check failed at start
    req,            \* the /predict calls in flight or finished
    fin,            \* argument of a pure part applied on its own
    fout            \* its result

bundle == <<model, brand_encoder, model_encoder, feature_names>>
svars  == <<disk, tpc, trun, tmem, spc, model, brand_encoder,
            model_encoder, feature_names, missing, req>>
vars   == <<disk, tpc, trun, tmem, spc, model, brand_encoder,
            model_encoder, feature_names, missing, req, fin, fout>>

----------------------------------------------------------------------------
(* Bounds *)

MaxRuns == 1
MaxRequests == 2
MaxTenths == 60

(* Program constants *)

REFERENCE_YEAR == 2025
PriceScale == 10

MODEL_PATH == "car_price_model.pkl"
BRAND_ENCODER_PATH == "brand_encoder.pkl"
MODEL_ENCODER_PATH == "model_encoder.pkl"
FEATURE_NAMES_PATH == "feature_names.pkl"
Paths == {MODEL_PATH, BRAND_ENCODER_PATH, MODEL_ENCODER_PATH, FEATURE_NAMES_PATH}

features == <<"year", "mileage", "cv", "fuel_type", "transmission",
              "brand_encoded", "model_encoded">>

Fields == {features[i] : i \in 1..Len(features)}

Requests == 1..MaxRequests

----------------------------------------------------------------------------
(* Python values *)

None    == [kind |-> "None"]
NoFile  == [kind |-> "NoFile"]
Partial == [kind |-> "Partial"]

Range(s) == {s[i] : i \in 1..Len(s)}

Max(a, b) == IF b > a THEN b ELSE a

\* bool(x) as all() applies it: None and the empty list are false, a fitted
\* forest and a LabelEncoder are true
Truthy(x) ==
    IF x.kind = "None" THEN FALSE
    ELSE IF x.kind = "list" THEN Len(x.items) > 0
    ELSE TRUE

\* The strings of the model in code-point order, the order sorted() and
\* numpy.unique give them.
StrOrder == <<"", "Automatique", "BMW", "Clio", "Diesel", "Essence",
              "Hybrid", "Kia", "Manuelle", "Rio", "UnknownBrandXYZ", "X5",
              "automatique", "essence">>

RECURSIVE SortedUnique(_, _)
SortedUnique(S, i) ==
    IF i > Len(StrOrder) THEN <<>>
    ELSE (IF StrOrder[i] \in S THEN <<StrOrder[i]>> ELSE <<>>)
         \o SortedUnique(S, i + 1)

----------------------------------------------------------------------------
(* LabelEncoder *)

\* fit: classes_ is the sorted list of the distinct labels
LabelEncoderFit(run, column) ==
    [kind |-> "LabelEncoder", run |-> run,
     classes |-> SortedUnique(Range(column), 1)]

Known(enc, name) == name \in Range(enc.classes)

\* transform([name])[0] for a fitted label: its 0-based index in classes_
Code(enc, name) ==
    (CHOOSE i \in 1..Len(enc.classes) : enc.classes[i] = name) - 1

----------------------------------------------------------------------------
(* training_model.py *)

\* Historical listings: what cleaned_autocentral_data.csv holds when the
\* script is run for the first, second, ... time (columns price, brand,
\* model; the numeric columns do not reach the encoders).
Row(p, b, m) == [price |-> p, brand |-> b, model |-> m]
ListingsByRun ==
    << <<Row(30000, "Kia", "Rio"), Row(0, "BMW", "X5")>>,
       <<Row(30000, "Kia", "Rio"), Row(90000, "BMW", "X5")>>,
       <<Row(45000, "Kia", "Clio"), Row(0, "Kia", "Rio"),
         Row(70007, "BMW", "X5")>> >>
Listings(run) == ListingsByRun[((run - 1) % Len(ListingsByRun)) + 1]

\* df = df[df['price'] > 0]
RECURSIVE PositivePrice(_)
PositivePrice(rows) ==
    IF rows = <<>> THEN <<>>
    ELSE (IF Head(rows).price > 0 THEN <<Head(rows)>> ELSE <<>>)
         \o PositivePrice(Tail(rows))

Column(rows, c) == [i \in 1..Len(rows) |-> rows[i][c]]

RECURSIVE SumPrice(_)
SumPrice(rows) ==
    IF rows = <<>> THEN 0 ELSE Head(rows).price + SumPrice(Tail(rows))

\* RandomForestRegressor.fit: the regressor is opaque; what the service can
\* observe of it is the schema it was fit on and a deterministic predict.
\* base stands for what the forest learnt from the prices.
RandomForestFit(run, cols, rows) ==
    [kind |-> "Predictor", run |-> run, feature_names_in |-> cols,
     base |-> (SumPrice(rows) * PriceScale) \div Max(1, Len(rows))]

PyList(run, items) == [kind |-> "list", run |-> run, items |-> items]

\* The objects the script holds after section 5, for run number run, the
\* listings rows and the column list cols.
Fitted(run, rows, cols) ==
    LET df == PositivePrice(rows) IN
    [rf_model |-> RandomForestFit(run, cols, df),
     le_brand |-> LabelEncoderFit(run, Column(df, "brand")),
     le_model |-> LabelEncoderFit(run, Column(df, "model")),
     features |-> PyList(run, cols)]

\* Section 6 writes the files in this order, each from this object.
SaveOrder == <<MODEL_PATH, BRAND_ENCODER_PATH, MODEL_ENCODER_PATH,
               FEATURE_NAMES_PATH>>
SaveObject == <<"rf_model", "le_brand", "le_model", "features">>

NoObjects == [rf_model |-> None, le_brand |-> None, le_model |-> None,
              features |-> None]

\* Sections 1 to 5: read the listings, clean, fit, evaluate.
Train ==
    /\ tpc.step = "idle"
    /\ trun < MaxRuns
    /\ tmem' = Fitted(trun + 1, Listings(trun + 1), features)
    /\ trun' = trun + 1
    /\ tpc' = [step |-> "open", i |-> 1]
    /\ UNCHANGED <<disk, spc, model, brand_encoder,
                   model_encoder, feature_names, missing, req, fin, fout>>

\* open(path, 'wb'): the file exists from here on, and is empty
OpenFile ==
    /\ tpc.step = "open"
    /\ disk' = [disk EXCEPT ![SaveOrder[tpc.i]] = Partial]
    /\ tpc' = [tpc EXCEPT !.step = "dump"]
    /\ UNCHANGED <<trun, tmem, spc, model, brand_encoder,
                   model_encoder, feature_names, missing, req, fin, fout>>

\* pickle.dump(obj, f) and the end of the with block
DumpFile ==
    /\ tpc.step = "dump"
    /\ disk' = [disk EXCEPT ![SaveOrder[tpc.i]] = tmem[SaveObject[tpc.i]]]
    /\ tpc' = IF tpc.i < Len(SaveOrder)
              THEN [step |-> "open", i |-> tpc.i + 1]
              ELSE [step |-> "idle", i |-> 0]
    /\ UNCHANGED <<trun, tmem, spc, model, brand_encoder,
                   model_encoder, feature_names, missing, req, fin, fout>>

----------------------------------------------------------------------------
(* Artifacts already in the working directory when the model starts: none, *)
(* or a complete set left by an earlier run of a training script, whose    *)
(* column list need not be the present one.                                *)

EarlierLists ==
    { features,
      <<"year", "mileage", "cv", "fuel_type", "transmission",
        "brand_encoded", "model_encoded", "color">>,
      <<>> }

EarlierRows == <<Row(30000, "Kia", "Rio"), Row(90000, "BMW", "X5")>>

EarlierDisk(cols) ==
    LET o == Fitted(0, EarlierRows, cols) IN
    [p \in Paths |->
        o[SaveObject[CHOOSE i \in 1..Len(SaveOrder) : SaveOrder[i] = p]]]

----------------------------------------------------------------------------
(* backend.py, module level *)

\* Lines 27-30
StartService ==
    /\ spc = "stopped"
    /\ spc' = "load_model"
    /\ model' = None
    /\ brand_encoder' = None
    /\ model_encoder' = None
    /\ feature_names' = None
    /\ UNCHANGED <<disk, tpc, trun, tmem, missing, req, fin, fout>>

\* if os.path.exists(path): with open(path, 'rb') as f: x = pickle.load(f)
\* The three outcomes for one file: kept None, loaded, or pickle.load
\* raising on a file that a writer has opened and not yet filled.
Exists(path) == disk[path].kind # "NoFile"
Unpickles(path) == disk[path].kind # "Partial"

LoadStep(here, path, next, global) ==
    /\ spc = here
    /\ IF ~Exists(path)
       THEN /\ spc' = next
            /\ global' = global
            /\ missing' = missing \cup {path}
       ELSE IF Unpickles(path)
       THEN /\ spc' = next
            /\ global' = disk[path]
            /\ missing' = missing
       ELSE /\ spc' = "crashed"
            /\ global' = global
            /\ missing' = missing

LoadModel ==
    /\ LoadStep("load_model", MODEL_PATH, "load_brand_encoder", model)
    /\ UNCHANGED <<disk, tpc, trun, tmem, brand_encoder,
                   model_encoder, feature_names, req, fin, fout>>

LoadBrandEncoder ==
    /\ LoadStep("load_brand_encoder", BRAND_ENCODER_PATH,
                "load_model_encoder", brand_encoder)
    /\ UNCHANGED <<disk, tpc, trun, tmem, model,
                   model_encoder, feature_names, req, fin, fout>>

LoadModelEncoder ==
    /\ LoadStep("load_model_encoder", MODEL_ENCODER_PATH,
                "load_feature_names", model_encoder)
    /\ UNCHANGED <<disk, tpc, trun, tmem, model,
                   brand_encoder, feature_names, req, fin, fout>>

LoadFeatureNames ==
    /\ LoadStep("load_feature_names", FEATURE_NAMES_PATH, "serving",
                feature_names)
    /\ UNCHANGED <<disk, tpc, trun, tmem, model,
                   brand_encoder, model_encoder, req, fin, fout>>

----------------------------------------------------------------------------
(* backend.py, predict_price: the pure parts *)

\* A match that ignores case
TransmissionCodeAnyCase(transmission) ==
    IF transmission \in {"Automatique", "automatique"} THEN 1 ELSE 0

\* Line 103
TransmissionCode(transmission) ==
    IF transmission = "Automatique" THEN 1 ELSE 0

\* The calendar year passed through
RawYear(year) == year

\* Line 106
Age(year) == REFERENCE_YEAR - year

\* Lines 109-110: fuel_mapping.get(car.fuel_type, 0)
fuel_mapping == [Essence |-> 0, Diesel |-> 1, Hybrid |-> 2]
FuelCode(fuel_type) ==
    IF fuel_type \in DOMAIN fuel_mapping THEN fuel_mapping[fuel_type] ELSE 0

\* Lines 113-121: the dict, as its items in insertion order
InputData(car, brand_encoded, model_encoded) ==
    << <<"year", Age(car.year)>>,
       <<"mileage", car.mileage>>,
       <<"cv", car.cv>>,
       <<"fuel_type", FuelCode(car.fuel_type)>>,
       <<"transmission", TransmissionCode(car.transmission)>>,
       <<"brand_encoded", brand_encoded>>,
       <<"model_encoded", model_encoded>> >>

Keys(d) == {d[i][1] : i \in 1..Len(d)}
Get(d, k) == d[CHOOSE i \in 1..Len(d) : d[i][1] = k][2]

\* Line 124: pd.DataFrame([input_data])[feature_names] raises KeyError when
\* a listed name is no column of the frame
SelectRaises(d, names) == ~(Range(names) \subseteq Keys(d))

\* The frame's columns left in insertion order
SelectUnordered(d, names) ==
    [columns |-> names, values |-> [i \in 1..Len(names) |-> d[i][2]]]

\* ... and otherwise gives the one-row frame with the listed columns, in the
\* order of the list
Select(d, names) ==
    [columns |-> names,
     values |-> [i \in 1..Len(names) |-> Get(d, names[i])]]

\* Line 127, model.predict(input_df): the forest raises ValueError on a
\* frame of another width than the one it was fit on
PredictRaises(m, X) == Len(X.columns) # Len(m.feature_names_in)

\* ... and otherwise returns a number (here in tenths) that depends on the
\* fitted forest and on the value at each position of the row.
ForestWeights == <<-9000, -1, 4000, 500, 30000, 100, 70, 1>>
RECURSIVE Weighted(_, _)
Weighted(values, i) ==
    IF i > Len(values) THEN 0
    ELSE values[i] * (IF i <= Len(ForestWeights) THEN ForestWeights[i] ELSE 1)
         + Weighted(values, i + 1)
PredictValue(m, X) == m.base + Weighted(X.values, 1)

\* round(v) on a float: to the nearest integer, a tie to the even one
PyRound(tenths) ==
    LET q == tenths \div PriceScale
        r == tenths % PriceScale
    IN  IF 2 * r < PriceScale THEN q
        ELSE IF 2 * r > PriceScale THEN q + 1
        ELSE IF q % 2 = 0 THEN q ELSE q + 1

\* round(x) in place of int(x)
RoundedPrice(prediction) == Max(0, PyRound(prediction))

\* int(x) on a float: truncation towards zero
PyInt(tenths) ==
    IF tenths >= 0 THEN tenths \div PriceScale
    ELSE -((-tenths) \div PriceScale)

\* int(prediction), the clamp left out
UnclampedPrice(prediction) == PyInt(prediction)

\* Line 131: int(max(0, prediction))
EstimatedPrice(prediction) == PyInt(Max(0, prediction))

----------------------------------------------------------------------------
(* backend.py, predict_price: one call, as the steps at which it reads the *)
(* module globals.  Calls run on the server's thread pool, so the steps of *)
(* different calls interleave.                                             *)

Car(y, b, m, km, cv, f, t) ==
    [year |-> y, brand |-> b, model |-> m, mileage |-> km, cv |-> cv,
     fuel_type |-> f, transmission |-> t]

Cars ==
    { Car(2020, "Kia", "Rio", 85000, 5, "Essence", "Manuelle"),
      Car(2030, "UnknownBrandXYZ", "Rio", 85003, 12, "Diesel", "Automatique"),
      Car(1960, "Kia", "Clio", 400000, 4, "", "automatique") }

NoLocals == [car |-> None]
Idle == [pc |-> "idle", locals |-> NoLocals, status |-> 0, response |-> None]

Bound(r, name) == name \in DOMAIN req[r].locals

\* Every failure reported as a server error
AlwaysServerError(r, code, detail) ==
    req' = [req EXCEPT ![r].pc = "rejected", ![r].status = 500,
                       ![r].response = [kind |-> "error", detail |-> detail]]

\* raise HTTPException(status_code, detail): the call ends, rejected
HTTPException(r, code, detail) ==
    req' = [req EXCEPT ![r].pc = "rejected", ![r].status = code,
                       ![r].response = [kind |-> "error", detail |-> detail]]

Goto(r, pc, bindings) ==
    req' = [req EXCEPT ![r].pc = pc,
                       ![r].locals = bindings @@ req[r].locals]

\* The check home() makes: model is not None
ModelLoaded == model # None

\* Line 82: all([model, brand_encoder, model_encoder, feature_names])
AllLoaded ==
    /\ Truthy(model)
    /\ Truthy(brand_encoder)
    /\ Truthy(model_encoder)
    /\ Truthy(feature_names)

\* A POST /predict arrives (calls are numbered in order of arrival) and
\* predict_price runs its lines 81-86.
Receive(r) ==
    /\ spc = "serving"
    /\ req[r].pc = "idle"
    /\ IF r = 1 THEN TRUE ELSE req[r - 1].pc # "idle"
    /\ \E car \in Cars :
          IF ~AllLoaded
          THEN req' = [req EXCEPT
                         ![r].pc = "rejected",
                         ![r].locals = [car |-> car],
                         ![r].status = 500,
                         ![r].response =
                             [kind |-> "error",
                              detail |-> "Model or encoders not loaded"]]
          ELSE req' = [req EXCEPT ![r].pc = "encode_brand",
                                  ![r].locals = [car |-> car]]
    /\ UNCHANGED <<disk, tpc, trun, tmem, spc, model,
                   brand_encoder, model_encoder, feature_names, missing,
                   fin, fout>>

\* An unseen label given the first code
TransformDefaultZero(enc, name) ==
    IF Known(enc, name) THEN Code(enc, name) ELSE 0

\* Lines 90-94 and 96-100: transform raises ValueError on an unseen label
Transform(enc, name) == IF Known(enc, name) THEN Code(enc, name) ELSE -1

\* An encoder that adds the unseen label to its classes
EncodeBrandLearning(r) ==
    /\ req[r].pc = "encode_brand"
    /\ LET brand == req[r].locals.car.brand IN
       /\ Goto(r, "encode_model",
               [brand_encoded |-> Transform(brand_encoder, brand)])
       /\ brand_encoder' =
              IF Known(brand_encoder, brand) THEN brand_encoder
              ELSE [brand_encoder EXCEPT
                      !.classes = Append(brand_encoder.classes, brand)]
    /\ UNCHANGED <<disk, tpc, trun, tmem, spc, model,
                   model_encoder, feature_names, missing, fin, fout>>

EncodeBrand(r) ==
    /\ req[r].pc = "encode_brand"
    /\ Goto(r, "encode_model",
            [brand_encoded |-> Transform(brand_encoder, req[r].locals.car.brand)])
    /\ UNCHANGED <<disk, tpc, trun, tmem, spc, model,
                   brand_encoder, model_encoder, feature_names, missing,
                   fin, fout>>

EncodeModel(r) ==
    /\ req[r].pc = "encode_model"
    /\ Goto(r, "build",
            [model_encoded |-> Transform(model_encoder, req[r].locals.car.model)])
    /\ UNCHANGED <<disk, tpc, trun, tmem, spc, model,
                   brand_encoder, model_encoder, feature_names, missing,
                   fin, fout>>

\* Lines 102-124, and 135-136 when line 124 raises
BuildFrame(r) ==
    /\ req[r].pc = "build"
    /\ LET l == req[r].locals
           d == InputData(l.car, l.brand_encoded, l.model_encoded)
       IN  IF SelectRaises(d, feature_names.items)
           THEN HTTPException(r, 400, "Prediction error: KeyError")
           ELSE Goto(r, "predict",
                     [input_data |-> d,
                      input_df |-> Select(d, feature_names.items)])
    /\ UNCHANGED <<disk, tpc, trun, tmem, spc, model,
                   brand_encoder, model_encoder, feature_names, missing,
                   fin, fout>>

\* Lines 127-134, and 135-136 when line 127 raises
Predict(r) ==
    /\ req[r].pc = "predict"
    /\ LET X == req[r].locals.input_df
           prediction == PredictValue(model, X)
       IN  IF PredictRaises(model, X)
           THEN HTTPException(r, 400, "Prediction error: ValueError")
           ELSE req' = [req EXCEPT
                   ![r].pc = "responded",
                   ![r].status = 200,
                   ![r].locals = [prediction |-> prediction] @@ req[r].locals,
                   ![r].response =
                       [kind |-> "ok",
                        input |-> req[r].locals.car,
                        estimated_price_tnd |-> EstimatedPrice(prediction),
                        message |-> "Prediction successful"]]
    /\ UNCHANGED <<disk, tpc, trun, tmem, spc, model,
                   brand_encoder, model_encoder, feature_names, missing,
                   fin, fout>>

----------------------------------------------------------------------------
(* The system: the working directory, the training script run any number   *)
(* of times up to MaxRuns, one service process, MaxRequests calls.         *)

Init ==
    /\ disk \in {[p \in Paths |-> NoFile]}
                \cup {EarlierDisk(cols) : cols \in EarlierLists}
    /\ tpc = [step |-> "idle", i |-> 0]
    /\ trun = 0
    /\ tmem = NoObjects
    /\ spc = "stopped"
    /\ model = None
    /\ brand_encoder = None
    /\ model_encoder = None
    /\ feature_names = None
    /\ missing = {}
    /\ req = [r \in Requests |-> Idle]
    /\ fin = None
    /\ fout = None

Handler(r) ==
    \/ Receive(r)
    \/ EncodeBrand(r)
    \/ EncodeModel(r)
    \/ BuildFrame(r)
    \/ Predict(r)

Next ==
    \/ Train
    \/ OpenFile
    \/ DumpFile
    \/ StartService
    \/ LoadModel
    \/ LoadBrandEncoder
    \/ LoadModelEncoder
    \/ LoadFeatureNames
    \/ \E r \in Requests : Handler(r)

Spec == Init /\ [][Next]_vars

----------------------------------------------------------------------------
(* The pure parts of predict_price on their own: an input is drawn, the    *)
(* function is applied to it once.                                         *)

RECURSIVE Perms(_)
Perms(S) ==
    IF S = {} THEN {<<>>}
    ELSE UNION {{<<x>> \o p : p \in Perms(S \ {x})} : x \in S}

Strings == Range(StrOrder)

PriceInputs ==
    {[kind |-> "price", v |-> v] : v \in (-MaxTenths..MaxTenths) \cup {19995}}
FuelInputs == {[kind |-> "fuel", s |-> s] : s \in Strings}
TransmissionInputs == {[kind |-> "transmission", s |-> s] : s \in Strings}
SelectInputs ==
    {[kind |-> "select", names |-> names, car |-> car,
      brand_encoded |-> c[1], model_encoded |-> c[2]] :
        names \in Perms(Fields), car \in Cars, c \in {<<-1, 0>>, <<1, -1>>}}

Result(n) == [kind |-> "int", value |-> n]

InitPure ==
    /\ disk = [p \in Paths |-> NoFile]
    /\ tpc = [step |-> "idle", i |-> 0]
    /\ trun = 0
    /\ tmem = NoObjects
    /\ spc = "stopped"
    /\ model = None
    /\ brand_encoder = None
    /\ model_encoder = None
    /\ feature_names = None
    /\ missing = {}
    /\ req = [r \in Requests |-> Idle]
    /\ fin \in PriceInputs \cup FuelInputs \cup TransmissionInputs
               \cup SelectInputs
    /\ fout = None

ApplyEstimatedPrice ==
    /\ fin.kind = "price" /\ fout = None
    /\ fout' = Result(EstimatedPrice(fin.v))
    /\ UNCHANGED <<svars, fin>>

ApplyFuelCode ==
    /\ fin.kind = "fuel" /\ fout = None
    /\ fout' = Result(FuelCode(fin.s))
    /\ UNCHANGED <<svars, fin>>

ApplyTransmissionCode ==
    /\ fin.kind = "transmission" /\ fout = None
    /\ fout' = Result(TransmissionCode(fin.s))
    /\ UNCHANGED <<svars, fin>>

ApplySelect ==
    /\ fin.kind = "select" /\ fout = None
    /\ LET d == InputData(fin.car, fin.brand_encoded, fin.model_encoded)
       IN  fout' = IF SelectRaises(d, fin.names)
                   THEN [kind |-> "KeyError"]
                   ELSE [kind |-> "frame", X |-> Select(d, fin.names)]
    /\ UNCHANGED <<svars, fin>>

NextPure ==
    \/ ApplyEstimatedPrice
    \/ ApplyFuelCode
    \/ ApplyTransmissionCode
    \/ ApplySelect

SpecPure == InitPure /\ [][NextPure]_vars

----------------------------------------------------------------------------
(* Properties of the pure parts (checked under SpecPure) *)

\* C3, as stated: for any Predictor output v the served price is
\* max(0, round(v)), rounding to the nearest integer.
C3_PriceIsRounded ==
    (fin.kind = "price" /\ fout # None)
        => fout.value = Max(0, PyRound(fin.v))

\* C3, amended: for any Predictor output v the served price is max(0, v)
\* truncated to an integer: the greatest integer p with p <= max(0, v).
C3_PriceIsTruncated ==
    (fin.kind = "price" /\ fout # None)
        => /\ fout.value * PriceScale <= Max(0, fin.v)
           /\ Max(0, fin.v) < (fout.value + 1) * PriceScale

\* v = 1999.5 is served as 1999
C3_Witness ==
    fin.kind = "price" /\ fin.v = 19995 /\ fout = Result(1999)

\* The value predict_price computes for the field called name
FieldValue(car, brand_encoded, model_encoded, name) ==
    CASE name = "year" -> REFERENCE_YEAR - car.year
      [] name = "mileage" -> car.mileage
      [] name = "cv" -> car.cv
      [] name = "fuel_type" ->
            (CASE car.fuel_type = "Diesel" -> 1
               [] car.fuel_type = "Hybrid" -> 2
               [] OTHER -> 0)
      [] name = "transmission" ->
            (IF car.transmission = "Automatique" THEN 1 ELSE 0)
      [] name = "brand_encoded" -> brand_encoded
      [] name = "model_encoded" -> model_encoded

Reversed(s) == [i \in 1..Len(s) |-> s[Len(s) + 1 - i]]

\* The same dict with its items inserted in another order
Reinserted(d, order) == [i \in 1..Len(d) |-> d[order[i]]]
InsertionOrders == {<<7, 6, 5, 4, 3, 2, 1>>, <<2, 3, 4, 5, 6, 7, 1>>,
                    <<4, 1, 6, 2, 7, 3, 5>>}

\* C5: for every persisted feature-name list that is a permutation of the
\* seven fields, the row handed to predict has at position i the value
\* computed for the field that entry i of the list names, whatever the order
\* in which the fields were inserted into input_data.
C5_VectorFollowsFeatureNames ==
    (fin.kind = "select" /\ fout # None)
        => /\ fout.kind = "frame"
           /\ fout.X.columns = fin.names
           /\ Len(fout.X.values) = Len(fin.names)
           /\ \A i \in 1..Len(fin.names) :
                 fout.X.values[i] =
                     FieldValue(fin.car, fin.brand_encoded,
                                fin.model_encoded, fin.names[i])
           /\ \A order \in InsertionOrders :
                 Select(Reinserted(InputData(fin.car, fin.brand_encoded,
                                             fin.model_encoded), order),
                        fin.names) = fout.X

\* A list in another order than the one the fields were inserted in: the
\* row starts with the model code and ends with the age.
C5_Witness ==
    /\ fin.kind = "select" /\ fout # None
    /\ fin.names = Reversed(features)
    /\ fin.car.year = 2030
    /\ fout.X.values[1] = fin.model_encoded
    /\ fout.X.values[7] = -5

\* C7: every fuel_type string maps to exactly one code in {0,1,2}:
\* Essence to 0, Diesel to 1, Hybrid to 2 and every other string to 0;
\* every transmission string maps to 1 if it is exactly "Automatique" and
\* to 0 otherwise; no string is rejected.
C7_EnumeratedEncodings ==
    /\ (fin.kind = "fuel" /\ fout # None)
          => /\ fout.kind = "int"
             /\ fout.value \in {0, 1, 2}
             /\ fin.s = "Essence" => fout.value = 0
             /\ fin.s = "Diesel" => fout.value = 1
             /\ fin.s = "Hybrid" => fout.value = 2
             /\ fin.s \notin {"Essence", "Diesel", "Hybrid"} => fout.value = 0
    /\ (fin.kind = "transmission" /\ fout # None)
          => /\ fout.kind = "int"
             /\ fout.value = 1 <=> fin.s = "Automatique"
             /\ fout.value = 0 <=> fin.s # "Automatique"

\* The case variant "essence" is served as 0
C7_Witness ==
    fin.kind = "fuel" /\ fin.s = "essence" /\ fout = Result(0)

----------------------------------------------------------------------------
(* Properties of the service (checked under Spec) *)

Locals(r) == req[r].locals
Rejected(r) == req[r].pc = "rejected"
Responded(r) == req[r].pc = "responded"
Finished(r) == Rejected(r) \/ Responded(r)

\* The loaded bundle can answer: the readiness check passes, every listed
\* column is one predict_price supplies, and the Predictor accepts a frame
\* with the listed columns.
BundleServes ==
    /\ AllLoaded
    /\ Range(feature_names.items) \subseteq Fields
    /\ Len(feature_names.items) = Len(model.feature_names_in)

CodeOf(enc, name, code) ==
    IF name \in Range(enc.classes)
    THEN code \in 0..(Len(enc.classes) - 1) /\ enc.classes[code + 1] = name
    ELSE code = -1

\* C1: with the bundle loaded, a brand outside the brand encoder's
\* vocabulary is given the code -1, and so is a model outside the model
\* encoder's vocabulary, while a known name gets its stored code; the
\* unknown name is recovered from locally, so that the call is answered and
\* not rejected.
C1_UnknownCategoryFallback ==
    \A r \in Requests :
        /\ Bound(r, "brand_encoded")
              => CodeOf(brand_encoder, Locals(r).car.brand,
                        Locals(r).brand_encoded)
        /\ Bound(r, "model_encoded")
              => CodeOf(model_encoder, Locals(r).car.model,
                        Locals(r).model_encoded)
        /\ BundleServes => ~Rejected(r)

\* Two answered calls, one with an unknown brand, one with an unknown model
C1_Witness ==
    /\ \E r \in Requests :
          /\ Responded(r)
          /\ Locals(r).car.brand = "UnknownBrandXYZ"
          /\ Locals(r).brand_encoded = -1
          /\ Locals(r).model_encoded >= 0
    /\ \E r \in Requests :
          /\ Responded(r)
          /\ Locals(r).car.model = "Clio"
          /\ Locals(r).model_encoded = -1
          /\ Locals(r).brand_encoded >= 0

\* The file each position of the module-level code is about to load
Loading == [load_model |-> MODEL_PATH,
            load_brand_encoder |-> BRAND_ENCODER_PATH,
            load_model_encoder |-> MODEL_ENCODER_PATH,
            load_feature_names |-> FEATURE_NAMES_PATH]

C2_Rejected500 ==
    (spc = "serving" /\ missing # {}) =>
        \A r \in Requests :
            /\ req[r].pc \in {"idle", "rejected"}
            /\ Rejected(r) => /\ req[r].status = 500
                              /\ DOMAIN Locals(r) = {"car"}

C2_StartSurvivesMissingFile ==
    (spc' = "crashed" /\ spc # "crashed") =>
        /\ spc \in DOMAIN Loading
        /\ Exists(Loading[spc])

\* C2: if at service start one of the four artifacts is absent, every
\* prediction request of the process's lifetime is rejected with status 500,
\* also after a later training run has created the files, and it is rejected
\* before any encoder lookup, frame construction or Predictor call; a
\* missing file does not make the start itself fail.
C2_MissingArtifactMeansUnavailable ==
    /\ []C2_Rejected500
    /\ [][C2_StartSurvivesMissingFile]_vars

\* A call rejected with 500 while all four files are on disk, complete
C2_Witness ==
    /\ spc = "serving" /\ missing # {}
    /\ \A p \in Paths : disk[p].kind \notin {"NoFile", "Partial"}
    /\ \E r \in Requests : Rejected(r) /\ req[r].status = 500

\* C4: every successful response carries an estimated_price_tnd that is an
\* integer >= 0, whatever the Predictor returned and whatever the input,
\* and echoes the request's input.
C4_PriceNonNegativeInputEchoed ==
    \A r \in Requests :
        Responded(r) =>
            /\ req[r].status = 200
            /\ req[r].response.estimated_price_tnd \in Nat
            /\ req[r].response.input \in Cars
            /\ req[r].response.input = Locals(r).car
            /\ Locals(r).input_data =
                   InputData(req[r].response.input, Locals(r).brand_encoded,
                             Locals(r).model_encoded)

\* A negative Predictor output served as 0
C4_Witness ==
    \E r \in Requests :
        /\ Responded(r)
        /\ Locals(r).prediction < 0
        /\ req[r].response.estimated_price_tnd = 0

\* C6: the value under the feature name "year" is 2025 - year, the age and
\* not the calendar year, also for a year after 2025, where it is negative;
\* such a request is not rejected for it and goes on to prediction.
C6_YearFeatureIsAge ==
    \A r \in Requests :
        /\ Bound(r, "input_data")
              => /\ Get(Locals(r).input_data, "year") = 2025 - Locals(r).car.year
                 /\ Get(Locals(r).input_data, "year") # Locals(r).car.year
        /\ Bound(r, "input_df")
              => \A i \in 1..Len(Locals(r).input_df.columns) :
                    Locals(r).input_df.columns[i] = "year"
                        => Locals(r).input_df.values[i]
                               = 2025 - Locals(r).car.year
        /\ (req[r].pc # "idle" /\ BundleServes)
              => (Locals(r).car.year > 2025 => ~Rejected(r))

\* An answered call for a car of 2030, its age -5
C6_Witness ==
    \E r \in Requests :
        /\ Responded(r)
        /\ Locals(r).car.year = 2030
        /\ Get(Locals(r).input_data, "year") = -5

\* Whether a call that passes the readiness check fails after it: line 124
\* or line 127 raises, which the loaded bundle alone decides
FailsInTry(r) ==
    \/ ~(Range(feature_names.items) \subseteq Fields)
    \/ Len(feature_names.items) # Len(model.feature_names_in)

C8_Outcomes ==
    \A r \in Requests :
        /\ req[r].status \in {0, 200, 400, 500}
        /\ Responded(r) <=> req[r].status = 200
        /\ Rejected(r) <=> req[r].status \in {400, 500}
        /\ Responded(r) <=> req[r].response.kind = "ok"
        /\ Rejected(r) <=> req[r].response.kind = "error"
        /\ (AllLoaded /\ Rejected(r))
              => req[r].status = 400 /\ FailsInTry(r)
        /\ (AllLoaded /\ req[r].pc # "idle" /\ FailsInTry(r))
              => ~Responded(r)
        /\ req[r].status = 500 => ~AllLoaded

C8_RejectionIsLocal ==
    \A r \in Requests :
        /\ Finished(r) => req'[r] = req[r]
        /\ (Rejected(r)' /\ ~Rejected(r))
              => /\ bundle' = bundle
                 /\ \A q \in Requests \ {r} : req'[q] = req[q]

\* C8: a request that passes the readiness check and then fails in
\* encoding, frame building or prediction for another reason than an unknown
\* category (the persisted ordering naming a field that was not supplied
\* included) ends rejected with status 400, never with 500 and never with a
\* success response; each request ends in exactly one of responded and
\* rejected, and a rejection leaves the bundle and the other requests as
\* they were.
C8_FailurePastReadinessIs400 ==
    /\ []C8_Outcomes
    /\ [][C8_RejectionIsLocal]_vars

\* A request rejected with 400 because the ordering names "color", and a
\* later one against the same bundle rejected alike
C8_Witness ==
    /\ AllLoaded
    /\ "color" \in Range(feature_names.items)
    /\ \A r \in Requests : Rejected(r) /\ req[r].status = 400

\* C9: whenever the service answers a prediction successfully, the
\* Predictor, the two encoders and the feature-name ordering it uses were
\* all produced by the same training run.
C9_NoVersionSkew ==
    \A r \in Requests :
        Responded(r) =>
            /\ brand_encoder.run = model.run
            /\ model_encoder.run = model.run
            /\ feature_names.run = model.run

\* What one call gives when it is served alone against the loaded bundle
Alone(car) ==
    IF ~AllLoaded THEN [status |-> 500]
    ELSE LET b == Transform(brand_encoder, car.brand)
             m == Transform(model_encoder, car.model)
             d == InputData(car, b, m)
         IN  IF SelectRaises(d, feature_names.items) THEN [status |-> 400]
             ELSE LET X == Select(d, feature_names.items) IN
                  IF PredictRaises(model, X)
                  THEN [status |-> 400]
                  ELSE [status |-> 200, brand_encoded |-> b,
                        model_encoded |-> m, input_df |-> X,
                        price |-> EstimatedPrice(PredictValue(model, X))]

Outcome(r) ==
    IF Responded(r)
    THEN [status |-> 200, brand_encoded |-> Locals(r).brand_encoded,
          model_encoded |-> Locals(r).model_encoded,
          input_df |-> Locals(r).input_df,
          price |-> req[r].response.estimated_price_tnd]
    ELSE [status |-> req[r].status]

C10_SameAsAlone ==
    \A r \in Requests : Finished(r) => Outcome(r) = Alone(Locals(r).car)

C10_BundleReadOnly ==
    spc = "serving" => bundle' = bundle

\* C10: after startup no prediction request changes the loaded Predictor,
\* encoders or ordering, and so, for concurrent requests under every
\* interleaving, each request's outcome (codes, feature vector, price or
\* error kind) is the one it would have if served alone against the bundle
\* loaded at startup.
C10_RequestsDoNotInterfere ==
    /\ []C10_SameAsAlone
    /\ [][C10_BundleReadOnly]_vars

\* The second request answered while the first, with an unknown brand, is
\* still between its encoder lookups and its prediction
C10_Witness ==
    /\ MaxRequests >= 2
    /\ Responded(2)
    /\ req[1].pc \in {"encode_model", "build", "predict"}
    /\ Locals(1).car.brand = "UnknownBrandXYZ"
    /\ Locals(2).car.brand = "UnknownBrandXYZ"

====
